---- MODULE Spec2Model ----
(***************************************************************************)
(* The discriminative threshold fit of additional_resources/DiscVsGen.ipynb *)
(* (code cell "idx = np.argsort(x) ... t_star = ...") and the classifier    *)
(* f_dis built from it.                                                     *)
(*                                                                          *)
(* Arrays are functions over 0..N-1, as numpy indexes them.  Features are   *)
(* small positive integers, so every sum and midpoint below is exact; the   *)
(* threshold t_star is kept as the numerator of a fraction over 2           *)
(* (t_star = 5 stands for 2.5), and f_dis compares 2*x with it.             *)
(***************************************************************************)
EXTENDS Integers, FiniteSets, Sequences, TLC

MaxN == 4
MaxX == 4

\* value of a scalar the cell has not assigned (yet, or because it raised)
NoValue == -1

VARIABLES x, d, pc, idx, sorted_x, sorted_d,
          nb_missclassified_males, nb_missclassified_females, nb_errors,
          k, read_idx, t_star, y, outcome

vars == <<x, d, pc, idx, sorted_x, sorted_d,
          nb_missclassified_males, nb_missclassified_females, nb_errors,
          k, read_idx, t_star, y, outcome>>

N == Cardinality(DOMAIN x)

----------------------------------------------------------------------------
(* numpy primitives used by the cell *)

\* np.argsort(x): an index array that puts x in ascending order.  The
\* default sort kind is not stable, so every order of equal features is a
\* possible result.
\* The orders are built smallest feature first: S holds the indices not yet
\* placed, and any of those with the least feature may come next.
RECURSIVE SortOrders(_, _)
SortOrders(a, S) ==
    IF S = {} THEN {<<>>}
    ELSE UNION { { <<m>> \o s : s \in SortOrders(a, S \ {m}) } :
                 m \in {i \in S : \A j \in S : a[i] <= a[j]} }

Argsort(a) ==
    { [i \in DOMAIN a |-> s[i + 1]] : s \in SortOrders(a, DOMAIN a) }

\* a[p] (fancy indexing)
Take(a, p) == [i \in DOMAIN p |-> a[p[i]]]

RECURSIVE SumTo(_, _)
SumTo(a, i) == IF i < 0 THEN 0 ELSE a[i] + SumTo(a, i - 1)

\* np.sum(a)
Sum(a) == SumTo(a, Cardinality(DOMAIN a) - 1)

\* np.cumsum(a)
Cumsum(a) == [i \in DOMAIN a |-> SumTo(a, i)]

\* 1 - a (broadcast)
OneMinus(a) == [i \in DOMAIN a |-> 1 - a[i]]

ArgminNeverRaises(a) == FALSE

\* np.argmin raises ValueError on an empty array
ArgminRaises(a) == DOMAIN a = {}

RECURSIVE ArgminScanLast(_, _, _)
ArgminScanLast(a, i, best) ==
    IF i \notin DOMAIN a THEN best
    ELSE IF a[i] <= a[best] THEN ArgminScanLast(a, i + 1, i)
    ELSE ArgminScanLast(a, i + 1, best)

\* np.argmin(a): scan in index order, keep the first minimum
RECURSIVE ArgminScan(_, _, _)
ArgminScan(a, i, best) ==
    IF i \notin DOMAIN a THEN best
    ELSE IF a[i] < a[best] THEN ArgminScan(a, i + 1, i)
    ELSE ArgminScan(a, i + 1, best)

Argmin(a) == ArgminScan(a, 1, 0)

----------------------------------------------------------------------------
(* the expressions of the cell *)

NbMissclassifiedMales(sd) == Cumsum(sd)

NbMissclassifiedFemales(sd) ==
    [i \in DOMAIN sd |-> Sum(OneMinus(sd)) - Cumsum(OneMinus(sd))[i]]

NbErrors(m, f) == [i \in DOMAIN m |-> m[i] + f[i]]

\* the indices of sorted_x that line "t_star = ..." evaluates
TStarReads(kk) == {kk, kk + 1}

TStarAtRank(sx, kk) == sx[kk] + sx[kk]

\* (sorted_x[k] + sorted_x[k+1]) / 2, as a numerator over 2
TStarOf(sx, kk) == sx[kk] + sx[kk + 1]

f_dis_inclusive(v, t) == 2 * v >= t

\* f_dis = lambda x: x > t_star
f_dis(v, t) == 2 * v > t

----------------------------------------------------------------------------
Init ==
    /\ \E n \in 0..MaxN :
         /\ x \in [0..(n - 1) -> 1..MaxX]
         /\ d \in [0..(n - 1) -> {0, 1}]
    /\ pc = "sort"
    /\ idx = <<>>
    /\ sorted_x = <<>>
    /\ sorted_d = <<>>
    /\ nb_missclassified_males = <<>>
    /\ nb_missclassified_females = <<>>
    /\ nb_errors = <<>>
    /\ k = NoValue
    /\ read_idx = {}
    /\ t_star = NoValue
    /\ y = <<>>
    /\ outcome = "running"

\* idx = np.argsort(x); sorted_x = x[idx]; sorted_d = d[idx]
SortSamples ==
    /\ pc = "sort"
    /\ \E p \in Argsort(x) :
         /\ idx' = p
         /\ sorted_x' = Take(x, p)
         /\ sorted_d' = Take(d, p)
    /\ pc' = "count"
    /\ UNCHANGED <<x, d, nb_missclassified_males, nb_missclassified_females,
                   nb_errors, k, read_idx, t_star, y, outcome>>

\* nb_missclassified_males = ...; nb_missclassified_females = ...;
\* nb_errors = ...
CountErrors ==
    /\ pc = "count"
    /\ nb_missclassified_males' = NbMissclassifiedMales(sorted_d)
    /\ nb_missclassified_females' = NbMissclassifiedFemales(sorted_d)
    /\ nb_errors' = NbErrors(NbMissclassifiedMales(sorted_d),
                             NbMissclassifiedFemales(sorted_d))
    /\ pc' = "argmin"
    /\ UNCHANGED <<x, d, idx, sorted_x, sorted_d, k, read_idx, t_star, y,
                   outcome>>

\* k = np.argmin(nb_errors)
ChooseSplit ==
    /\ pc = "argmin"
    /\ IF ArgminRaises(nb_errors)
       THEN /\ outcome' = "ValueError"
            /\ pc' = "done"
            /\ k' = k
       ELSE /\ k' = Argmin(nb_errors)
            /\ pc' = "tstar"
            /\ outcome' = outcome
    /\ UNCHANGED <<x, d, idx, sorted_x, sorted_d, nb_missclassified_males,
                   nb_missclassified_females, nb_errors, read_idx, t_star, y>>

\* t_star = (sorted_x[k] + sorted_x[k+1]) / 2
PlaceThreshold ==
    /\ pc = "tstar"
    /\ read_idx' = TStarReads(k)
    /\ IF TStarReads(k) \subseteq DOMAIN sorted_x
       THEN /\ t_star' = TStarOf(sorted_x, k)
            /\ pc' = "predict"
            /\ outcome' = outcome
       ELSE /\ outcome' = "IndexError"
            /\ pc' = "done"
            /\ t_star' = t_star
    /\ UNCHANGED <<x, d, idx, sorted_x, sorted_d, nb_missclassified_males,
                   nb_missclassified_females, nb_errors, k, y>>

\* f_dis applied to the training features
Predict ==
    /\ pc = "predict"
    /\ y' = [i \in DOMAIN x |-> f_dis(x[i], t_star)]
    /\ outcome' = "ok"
    /\ pc' = "done"
    /\ UNCHANGED <<x, d, idx, sorted_x, sorted_d, nb_missclassified_males,
                   nb_missclassified_females, nb_errors, k, read_idx, t_star>>

Next ==
    \/ SortSamples
    \/ CountErrors
    \/ ChooseSplit
    \/ PlaceThreshold
    \/ Predict

Spec == Init /\ [][Next]_vars

----------------------------------------------------------------------------
(* quantities the properties speak about, computed independently of the cell *)

\* training samples on which y differs from the label
TrainErrors == Cardinality({i \in DOMAIN x : y[i] # (d[i] = 1)})

\* training errors of the classifier "predict 1 iff x > t/2"
ErrorsAt(t) == Cardinality({i \in DOMAIN x : (2 * x[i] > t) # (d[i] = 1)})

\* every threshold behaves on the training set like one of these: 0 is below
\* every feature (always predict 1), 2*MaxX is at or above every feature
\* (always predict 0)
Thresholds == 0..(2 * MaxX)

MinErrors == CHOOSE e \in 0..N : /\ \E t \in Thresholds : ErrorsAt(t) = e
                                 /\ \A t \in Thresholds : ErrorsAt(t) >= e

\* errors when the ranks 0..i are classified 0 and the ranks above i are
\* classified 1
SplitErrors(i) ==
    Cardinality({j \in DOMAIN sorted_d : j <= i /\ sorted_d[j] = 1})
  + Cardinality({j \in DOMAIN sorted_d : j > i /\ sorted_d[j] = 0})

\* the threshold the cell reaches when argsort returns p (NoValue if it raises)
ThresholdWith(p) ==
    LET sx == Take(x, p)
        sd == Take(d, p)
        e  == NbErrors(NbMissclassifiedMales(sd), NbMissclassifiedFemales(sd))
    IN  IF ArgminRaises(e) THEN NoValue
        ELSE IF TStarReads(Argmin(e)) \subseteq DOMAIN sx
             THEN TStarOf(sx, Argmin(e))
             ELSE NoValue

AllLabels(v) == \A i \in DOMAIN d : d[i] = v

DistinctFeatures == \A i, j \in DOMAIN x : i # j => x[i] # x[j]

\* both labels occur and every label-0 feature is below every label-1 feature
Separated ==
    /\ \E i \in DOMAIN d : d[i] = 0
    /\ \E i \in DOMAIN d : d[i] = 1
    /\ \A i, j \in DOMAIN d : (d[i] = 0 /\ d[j] = 1) => x[i] < x[j]

Max0 == CHOOSE v \in 1..MaxX :
          /\ \E i \in DOMAIN x : d[i] = 0 /\ x[i] = v
          /\ \A i \in DOMAIN x : d[i] = 0 => x[i] <= v

Min1 == CHOOSE v \in 1..MaxX :
          /\ \E i \in DOMAIN x : d[i] = 1 /\ x[i] = v
          /\ \A i \in DOMAIN x : d[i] = 1 => x[i] >= v

----------------------------------------------------------------------------
\* C1: whenever the fit yields a threshold, the classifier x > t_star makes
\* the minimum number of training errors achievable by any threshold,
\* always-predict-1 and always-predict-0 included.
C1_MinimumTrainingError ==
    outcome = "ok" => TrainErrors = MinErrors

\* C2: whenever the fit yields a threshold, the number of training samples
\* on which x > t_star differs from the label equals nb_errors[k], repeated
\* feature values included.
C2_RoundTripErrorCount ==
    outcome = "ok" => TrainErrors = nb_errors[k]

\* C3: the threshold is the same for every order in which the sort may place
\* the samples (every order of the samples with equal features).
C3_OrderIndependent ==
    outcome = "ok" =>
        \A p \in Argsort(x) :
            ThresholdWith(p) # NoValue => ThresholdWith(p) = t_star

\* C4: on a non-empty training set whose labels are all 1 or all 0 the fit
\* completes without an error, predicts that label for every training
\* feature and every feature below or above them, and makes no training
\* error.
C4_SingleClass ==
    (pc = "done" /\ N > 0 /\ (AllLabels(0) \/ AllLabels(1))) =>
        /\ outcome = "ok"
        /\ TrainErrors = 0
        /\ \A v \in 0..(MaxX + 1) : f_dis(v, t_star) = AllLabels(1)

\* C5: the fit never reads sorted_x at an index outside 0..N-1.
C5_ReadsInBounds ==
    \A i \in read_idx : i \in 0..(N - 1)

C7_EmptyFails ==
    (pc = "done" /\ N = 0) =>
        /\ outcome = "ValueError"
        /\ t_star = NoValue
        /\ k = NoValue

C7_Witness ==
    /\ N = 0
    /\ pc = "done"
    /\ outcome = "ValueError"

\* C8: k is the first index at which nb_errors takes its minimum: no index
\* has a lower error count and no smaller index an equal one.
C8_FirstMinimum ==
    k # NoValue =>
        /\ k \in DOMAIN nb_errors
        /\ \A j \in DOMAIN nb_errors : nb_errors[j] >= nb_errors[k]
        /\ \A j \in DOMAIN nb_errors : j < k => nb_errors[j] > nb_errors[k]

\* several split points attain the minimum and a later one is not chosen
C8_Witness ==
    /\ k # NoValue
    /\ \E j \in DOMAIN nb_errors : j > k /\ nb_errors[j] = nb_errors[k]

\* C9: whenever the fit yields a threshold, sorted_x[k] <= t_star <
\* sorted_x[k+1], and x > t_star predicts 0 for exactly the ranks <= k and 1
\* for the ranks > k, repeated feature values included.
C9_HalfOpenInterval ==
    outcome = "ok" =>
        /\ 2 * sorted_x[k] <= t_star
        /\ t_star < 2 * sorted_x[k + 1]
        /\ \A i \in DOMAIN sorted_x : f_dis(sorted_x[i], t_star) = (i > k)

\* C10: nb_errors has N entries, entry i counting the errors when the i+1
\* smallest samples are classified 0, so "everyone is 1" is no candidate;
\* whenever the fit yields a threshold, t_star is at least the smallest
\* training feature, the smallest sample is predicted 0, and the training
\* error is at least 1 when that sample has label 1.
C10_NoAllOnesSplit ==
    /\ pc \in {"argmin", "tstar", "predict", "done"} =>
          /\ DOMAIN nb_errors = 0..(N - 1)
          /\ \A i \in DOMAIN nb_errors : nb_errors[i] = SplitErrors(i)
    /\ outcome = "ok" =>
          /\ t_star >= 2 * sorted_x[0]
          /\ \A i \in DOMAIN x : sorted_x[0] <= x[i]
          /\ y[idx[0]] = FALSE
          /\ sorted_d[0] = 1 => TrainErrors >= 1

\* a threshold was produced although the smallest sample has label 1
C10_Witness ==
    /\ outcome = "ok"
    /\ sorted_d[0] = 1
    /\ TrainErrors >= 1
    /\ N >= 3

====
